---- MODULE Spec2Model ----
(***************************************************************************)
(* storage-service: save / load of a serde value as JSON text in one file. *)
(*   src/src/lib.rs    save, save_async, load, load_async                  *)
(*   src/src/store.rs  the earlier store::save / store::load               *)
(*   src/src/main.rs   the demo program over store                         *)
(*                                                                         *)
(* A text is a tuple of one-character strings (the bytes of the file).     *)
(* The JSON subset modelled is the one the repository's structs use:       *)
(* objects and arrays of strings, integers and booleans; floats, null and  *)
(* \u escapes do not occur in any text of the model.                       *)
(*                                                                         *)
(* tokio::fs::File buffers a write: poll_write copies the bytes, hands     *)
(* them to a blocking task and returns Ok at once; the task writes them    *)
(* later and its result is seen only by a later write or flush on the same *)
(* handle.  save_async drops the handle right after write_all, so the      *)
(* buffered write is modelled as an entry of `pending` that the action     *)
(* BackgroundWrite performs later, its result read by nobody.              *)
(***************************************************************************)
EXTENDS Integers, Sequences, FiniteSets, TLC

VARIABLES
  dir,        \* the directory of the files exists
  parent_ok,  \* create_dir of that directory can succeed
  quota,      \* the most bytes a file can hold before a write fails
  files,      \* path -> [exists, data]
  frame,      \* caller -> the call it runs: operation, arguments, position, locals,
              \* and its history: steps done, first failed step, calls made
  pending,    \* writes buffered by tokio::fs::File, not yet performed
  saved,      \* history: path -> index of the value of the last successful save, 0 once the file is re-created
  contrib     \* history: path -> values whose bytes were written since the file was last truncated

vars == <<dir, parent_ok, quota, files, frame, pending, saved, contrib>>

(* bounds of the model *)
SmallQuota == 25
BigQuota == 64
MaxPending == 2
MaxRaceCalls == 1

Digits == <<"0", "1", "2", "3", "4", "5", "6", "7", "8", "9">>
WhiteSpace == {" ", "\n", "\t", "\r"}

name_key == <<"n", "a", "m", "e">>
value_key == <<"v", "a", "l", "u", "e">>
age_key == <<"a", "g", "e">>
is_male_key == <<"i", "s", "_", "m", "a", "l", "e">>

TestData == <<[key |-> name_key, ty |-> "String"], [key |-> value_key, ty |-> "i32"]>>
Person == <<[key |-> name_key, ty |-> "String"], [key |-> age_key, ty |-> "i8"],
            [key |-> is_male_key, ty |-> "bool"]>>

Fields(t) == IF t = "TestData" THEN TestData ELSE IF t = "Person" THEN Person ELSE <<>>

I32Max == 2147483647
IntMin(ty) == IF ty = "i8" THEN -128 ELSE -I32Max - 1
IntMax(ty) == IF ty = "i8" THEN 127 ELSE I32Max

RECURSIVE NatToText(_)
NatToText(n) ==
  IF n < 10 THEN <<Digits[n + 1]>> ELSE NatToText(n \div 10) \o <<Digits[(n % 10) + 1]>>

IntToText(n) == IF n < 0 THEN <<"-">> \o NatToText(-n) ELSE NatToText(n)

RECURSIVE EscapeStr(_)
EscapeStr(s) ==
  IF s = <<>> THEN <<>>
  ELSE LET c == Head(s)
           e == IF c = "\"" THEN <<"\\", "\"">>
                ELSE IF c = "\\" THEN <<"\\", "\\">>
                ELSE IF c = "\n" THEN <<"\\", "n">>
                ELSE IF c = "\t" THEN <<"\\", "t">>
                ELSE IF c = "\r" THEN <<"\\", "r">>
                ELSE <<c>>
       IN e \o EscapeStr(Tail(s))

StrToText(s) == <<"\"">> \o EscapeStr(s) \o <<"\"">>

FieldToText(ty, x) ==
  IF ty = "String" THEN StrToText(x)
  ELSE IF ty = "bool" THEN (IF x THEN <<"t", "r", "u", "e">> ELSE <<"f", "a", "l", "s", "e">>)
  ELSE IntToText(x)

RECURSIVE FieldsToText(_, _, _)
FieldsToText(fs, xs, i) ==
  IF i > Len(fs) THEN <<>>
  ELSE (IF i > 1 THEN <<",">> ELSE <<>>)
       \o StrToText(fs[i].key) \o <<":">> \o FieldToText(fs[i].ty, xs[i])
       \o FieldsToText(fs, xs, i + 1)

Serializable(v) == v.t \in {"TestData", "Person"}

to_string(v) ==
  IF Serializable(v)
  THEN [ok |-> TRUE, text |-> <<"{">> \o FieldsToText(Fields(v.t), v.v, 1) \o <<"}">>,
        kind |-> "None"]
  ELSE [ok |-> FALSE, text |-> <<>>, kind |-> "InvalidData"]

(* serde_json::from_str: a cursor over the text, typed by the requested struct *)
NoVal == <<>>
POk(x, p) == [ok |-> TRUE, cat |-> "none", val |-> x, pos |-> p]
PErr(c, p) == [ok |-> FALSE, cat |-> c, val |-> NoVal, pos |-> p]

Peek(s, p) == IF p > Len(s) THEN "EOF" ELSE s[p]

RECURSIVE SkipWs(_, _)
SkipWs(s, p) == IF p <= Len(s) /\ s[p] \in WhiteSpace THEN SkipWs(s, p + 1) ELSE p

IsDigit(c) == \E d \in 1..10 : Digits[d] = c
DigitVal(c) == (CHOOSE d \in 1..10 : Digits[d] = c) - 1

\* One more digit of the significand: n is the magnitude while it is at most
\* I32Max; over is 1 when the magnitude is exactly I32Max + 1, 2 when larger.
PushDigit(acc, d) ==
  IF acc.over = 0 /\ (acc.n < I32Max \div 10 \/ (acc.n = I32Max \div 10 /\ d <= I32Max % 10))
  THEN [n |-> acc.n * 10 + d, over |-> 0]
  ELSE IF acc.over = 0 /\ acc.n = I32Max \div 10 /\ d = (I32Max % 10) + 1
  THEN [n |-> I32Max, over |-> 1]
  ELSE [n |-> I32Max, over |-> 2]

RECURSIVE ParseDigits(_, _, _)
ParseDigits(s, p, acc) ==
  IF p <= Len(s) /\ IsDigit(s[p])
  THEN ParseDigits(s, p + 1, PushDigit(acc, DigitVal(s[p])))
  ELSE POk(acc, p)

Signed(m, neg) == IF ~neg THEN m.n ELSE IF m.over = 1 THEN -I32Max - 1 ELSE -m.n

\* the number just read, handed to the visitor of the integer type ty: a
\* fraction or exponent, or "-0", is a float; a value out of range is refused
IntVisit(s, r, neg, ty) ==
  IF Peek(s, r.pos) \in {".", "e", "E"} THEN PErr("data", r.pos)
  ELSE IF neg /\ r.val.n = 0 THEN PErr("data", r.pos)
  ELSE IF r.val.over = 2 \/ (r.val.over = 1 /\ ~neg) THEN PErr("data", r.pos)
  ELSE IF Signed(r.val, neg) < IntMin(ty) \/ Signed(r.val, neg) > IntMax(ty)
  THEN PErr("data", r.pos)
  ELSE POk(Signed(r.val, neg), r.pos)

\* parse_integer: at least one digit, no leading zero
ParseMagnitude(s, q, neg, ty) ==
  IF Peek(s, q) = "EOF" THEN PErr("eof", q)
  ELSE IF ~IsDigit(Peek(s, q)) THEN PErr("syntax", q)
  ELSE IF Peek(s, q) = "0" /\ IsDigit(Peek(s, q + 1)) THEN PErr("syntax", q + 1)
  ELSE IntVisit(s, ParseDigits(s, q, [n |-> 0, over |-> 0]), neg, ty)

ParseIntAt(s, p, ty) ==
  IF Peek(s, p) = "EOF" THEN PErr("eof", p)
  ELSE IF Peek(s, p) = "-" THEN ParseMagnitude(s, p + 1, TRUE, ty)
  ELSE IF IsDigit(Peek(s, p)) THEN ParseMagnitude(s, p, FALSE, ty)
  ELSE PErr("data", p)

\* deserialize_i8 / deserialize_i32
ParseInt(s, p, ty) == ParseIntAt(s, SkipWs(s, p), ty)

Unescape(c) ==
  IF c = "n" THEN "\n" ELSE IF c = "t" THEN "\t" ELSE IF c = "r" THEN "\r" ELSE c

\* parse_str, after the opening quote
RECURSIVE ParseStrBody(_, _, _)
ParseStrBody(s, p, acc) ==
  IF Peek(s, p) = "EOF" THEN PErr("eof", p)
  ELSE IF Peek(s, p) = "\"" THEN POk(acc, p + 1)
  ELSE IF Peek(s, p) \in {"\n", "\t", "\r"} THEN PErr("syntax", p)
  ELSE IF Peek(s, p) # "\\" THEN ParseStrBody(s, p + 1, Append(acc, s[p]))
  ELSE IF Peek(s, p + 1) = "EOF" THEN PErr("eof", p + 1)
  ELSE IF Peek(s, p + 1) \notin {"\"", "\\", "/", "n", "t", "r"} THEN PErr("syntax", p + 1)
  ELSE ParseStrBody(s, p + 2, Append(acc, Unescape(s[p + 1])))

ParseStrAt(s, p) ==
  IF Peek(s, p) = "EOF" THEN PErr("eof", p)
  ELSE IF Peek(s, p) # "\"" THEN PErr("data", p)
  ELSE ParseStrBody(s, p + 1, <<>>)

\* deserialize_string
ParseStr(s, p) == ParseStrAt(s, SkipWs(s, p))

\* parse_ident
RECURSIVE ParseIdent(_, _, _, _)
ParseIdent(s, p, rest, x) ==
  IF rest = <<>> THEN POk(x, p)
  ELSE IF Peek(s, p) = "EOF" THEN PErr("eof", p)
  ELSE IF Peek(s, p) # Head(rest) THEN PErr("syntax", p)
  ELSE ParseIdent(s, p + 1, Tail(rest), x)

ParseBoolAt(s, p) ==
  IF Peek(s, p) = "EOF" THEN PErr("eof", p)
  ELSE IF Peek(s, p) = "t" THEN ParseIdent(s, p + 1, <<"r", "u", "e">>, TRUE)
  ELSE IF Peek(s, p) = "f" THEN ParseIdent(s, p + 1, <<"a", "l", "s", "e">>, FALSE)
  ELSE PErr("data", p)

\* deserialize_bool
ParseBool(s, p) == ParseBoolAt(s, SkipWs(s, p))

ParseField(s, p, ty) ==
  IF ty = "String" THEN ParseStr(s, p)
  ELSE IF ty = "bool" THEN ParseBool(s, p)
  ELSE ParseInt(s, p, ty)

IgnoreValueAt(s, p) ==
  IF Peek(s, p) = "EOF" THEN PErr("eof", p)
  ELSE IF Peek(s, p) = "\"" THEN ParseStrAt(s, p)
  ELSE IF Peek(s, p) \in {"t", "f"} THEN ParseBoolAt(s, p)
  ELSE IF Peek(s, p) = "-" \/ IsDigit(Peek(s, p)) THEN ParseIntAt(s, p, "i32")
  ELSE PErr("syntax", p)

\* IgnoredAny for the value of an unknown field (scalar values)
IgnoreValue(s, p) == IgnoreValueAt(s, SkipWs(s, p))

FieldIndex(fs, k) ==
  IF \E i \in 1..Len(fs) : fs[i].key = k THEN CHOOSE i \in 1..Len(fs) : fs[i].key = k ELSE 0

RECURSIVE VisitSeq(_, _, _, _, _)

SeqElement(s, r, fs, i, acc) ==
  IF ~r.ok THEN r ELSE VisitSeq(s, r.pos, fs, i + 1, Append(acc, r.val))

SeqNext(s, q, fs, i, acc) ==
  IF i > 1 /\ Peek(s, q) = "]" THEN PErr("syntax", q)
  ELSE SeqElement(s, ParseField(s, q, fs[i].ty), fs, i, acc)

VisitSeqAt(s, p, fs, i, acc) ==
  IF Peek(s, p) = "EOF" THEN PErr("eof", p)
  ELSE IF i > Len(fs) THEN (IF Peek(s, p) = "]" THEN POk(acc, p + 1) ELSE PErr("syntax", p))
  ELSE IF Peek(s, p) = "]" THEN PErr("data", p)
  ELSE IF i = 1 THEN SeqNext(s, p, fs, i, acc)
  ELSE IF Peek(s, p) # "," THEN PErr("syntax", p)
  ELSE SeqNext(s, SkipWs(s, p + 1), fs, i, acc)

\* the derived visitor's visit_seq: the fields in declaration order, then end_seq
VisitSeq(s, p, fs, i, acc) == VisitSeqAt(s, SkipWs(s, p), fs, i, acc)

RECURSIVE VisitMap(_, _, _, _, _)

MapIgnored(s, r, fs, got) ==
  IF ~r.ok THEN r ELSE VisitMap(s, r.pos, fs, FALSE, got)

MapField(s, r, fs, i, got) ==
  IF ~r.ok THEN r ELSE VisitMap(s, r.pos, fs, FALSE, [got EXCEPT ![i] = <<r.val>>])

\* next_value for the field named by the key just read: parse_object_colon,
\* then the field's own type; a second value for a field is "duplicate field"
MapValue(s, cp, fs, i, got) ==
  IF Peek(s, cp) = "EOF" THEN PErr("eof", cp)
  ELSE IF Peek(s, cp) # ":" THEN PErr("syntax", cp)
  ELSE IF i = 0 THEN MapIgnored(s, IgnoreValue(s, cp + 1), fs, got)
  ELSE IF got[i] # <<>> THEN PErr("data", cp)
  ELSE MapField(s, ParseField(s, cp + 1, fs[i].ty), fs, i, got)

MapKey(s, kr, fs, got) ==
  IF ~kr.ok THEN kr ELSE MapValue(s, SkipWs(s, kr.pos), fs, FieldIndex(fs, kr.val), got)

MapNext(s, q, fs, got) ==
  IF Peek(s, q) = "EOF" THEN PErr("eof", q)
  ELSE IF Peek(s, q) # "\"" THEN PErr("syntax", q)
  ELSE MapKey(s, ParseStrBody(s, q + 1, <<>>), fs, got)

VisitMapAt(s, p, fs, first, got) ==
  IF Peek(s, p) = "EOF" THEN PErr("eof", p)
  ELSE IF Peek(s, p) = "}"
  THEN (IF \E i \in 1..Len(fs) : got[i] = <<>> THEN PErr("data", p)
        ELSE POk([i \in 1..Len(fs) |-> got[i][1]], p + 1))
  ELSE IF first THEN MapNext(s, p, fs, got)
  ELSE IF Peek(s, p) # "," THEN PErr("syntax", p)
  ELSE MapNext(s, SkipWs(s, p + 1), fs, got)

\* the derived visitor's visit_map: got[i] is <<value>> once field i was read;
\* at the closing brace every field must have been read ("missing field")
VisitMap(s, p, fs, first, got) == VisitMapAt(s, SkipWs(s, p), fs, first, got)

\* deserialize_struct: an array or an object
DeserializeStructAt(s, p, fs) ==
  IF Peek(s, p) = "EOF" THEN PErr("eof", p)
  ELSE IF Peek(s, p) = "[" THEN VisitSeq(s, p + 1, fs, 1, <<>>)
  ELSE IF Peek(s, p) = "{" THEN VisitMap(s, p + 1, fs, TRUE, [i \in 1..Len(fs) |-> <<>>])
  ELSE PErr("data", p)

\* Deserializer::end: only whitespace may follow the value
EndOfText(s, r, t) ==
  IF ~r.ok THEN [ok |-> FALSE, cat |-> r.cat, val |-> [t |-> "none", v |-> <<>>]]
  ELSE IF SkipWs(s, r.pos) <= Len(s)
  THEN [ok |-> FALSE, cat |-> "syntax", val |-> [t |-> "none", v |-> <<>>]]
  ELSE [ok |-> TRUE, cat |-> "none", val |-> [t |-> t, v |-> r.val]]

from_str(s, t) == EndOfText(s, DeserializeStructAt(s, SkipWs(s, 1), Fields(t)), t)

(* ------------------------------------------------------------------ *)
(* values, paths, results                                              *)

str_a == <<"a">>
str_quoted == <<"a", "\"", "b", "\\">>
str_Sanya == <<"S", "a", "n", "y", "a">>

\* the values callers pass; the last one is a map keyed by a tuple, which
\* serde_json refuses ("key must be a string")
Values == <<[t |-> "TestData", v |-> <<str_a, 1>>],
            [t |-> "TestData", v |-> <<str_quoted, -12>>],
            [t |-> "Person", v |-> <<str_Sanya, 19, TRUE>>],
            [t |-> "TupleKeyMap", v |-> <<>>]>>
ValueIds == 1..Len(Values)
MainData == 3
Types == {"TestData", "Person"}

home == <<"home">>
combine_path(path1, path2) == path1 \o path2
DocDir == combine_path(home, <<"Documents">>)
P1 == combine_path(DocDir, <<"test.txt">>)
P2 == combine_path(DocDir, <<"b.json">>)
Paths == {P1, P2}

NoValue == [t |-> "none", v |-> <<>>]
Pending == [ok |-> FALSE, kind |-> "Pending", val |-> NoValue]
Ok(x) == [ok |-> TRUE, kind |-> "Ok", val |-> x]
Err(kind) == [ok |-> FALSE, kind |-> kind, val |-> NoValue]
Unit == [t |-> "unit", v |-> <<>>]
None == [ok |-> FALSE, kind |-> "None", val |-> NoValue]
Some(x) == [ok |-> TRUE, kind |-> "Some", val |-> x]
Panic == [ok |-> FALSE, kind |-> "panic", val |-> NoValue]

\* impl From<serde_json::Error> for io::Error, applied by `?`
JsonErrorKind(cat) == IF cat = "eof" THEN "UnexpectedEof" ELSE "InvalidData"

to_string_result(k) ==
  LET r == to_string(Values[k])
  IN IF r.ok THEN Ok(Unit) ELSE Err(r.kind)

\* mutant: a decode error replaced by a default value, as unwrap_or_default would
from_str_result_or_default(text, ty) ==
  LET r == from_str(text, ty)
  IN IF r.ok THEN Ok(r.val) ELSE Ok(NoValue)

from_str_result(text, ty) ==
  LET r == from_str(text, ty)
  IN IF r.ok THEN Ok(r.val) ELSE Err(JsonErrorKind(r.cat))

(* ------------------------------------------------------------------ *)
(* the filesystem                                                      *)

InvalidByte == "0xFF"
Absent == [exists |-> FALSE, data |-> <<>>]
FileOf(text) == [exists |-> TRUE, data |-> text]

Min(a, b) == IF a < b THEN a ELSE b

\* mutant: the file opened for writing without truncate(true)
FsCreate_keep(p) ==
  IF dir THEN [ok |-> TRUE, kind |-> "Ok",
               file |-> IF files[p].exists THEN files[p] ELSE FileOf(<<>>)]
  ELSE [ok |-> FALSE, kind |-> "NotFound", file |-> files[p]]

\* File::create: the file is created, or truncated to length 0
FsCreate(p) ==
  IF dir THEN [ok |-> TRUE, kind |-> "Ok", file |-> FileOf(<<>>)]
  ELSE [ok |-> FALSE, kind |-> "NotFound", file |-> files[p]]

\* write_all through a handle opened at offset 0: the bytes that fit are
\* written over the file's first bytes; the write of a byte past the quota fails
FsWriteAll(old, buf) ==
  LET n == Min(Len(buf), quota)
      rest == IF Len(old) > n THEN SubSeq(old, n + 1, Len(old)) ELSE <<>>
  IN [ok |-> Len(buf) <= quota,
      kind |-> IF Len(buf) <= quota THEN "Ok" ELSE "StorageFull",
      data |-> SubSeq(buf, 1, n) \o rest]

\* mutant: the result of the open not looked at
FsOpen_unchecked(p) == [ok |-> TRUE, kind |-> "Ok"]

\* File::open
FsOpen(p) ==
  IF dir /\ files[p].exists THEN [ok |-> TRUE, kind |-> "Ok"]
  ELSE [ok |-> FALSE, kind |-> "NotFound"]

\* read_to_string: the whole file, which must be UTF-8
FsReadToString(p) ==
  LET data == files[p].data
  IN IF \E n \in 1..Len(data) : data[n] = InvalidByte
     THEN [ok |-> FALSE, kind |-> "InvalidData", text |-> <<>>]
     ELSE [ok |-> TRUE, kind |-> "Ok", text |-> data]

(* ------------------------------------------------------------------ *)
(* calls                                                               *)

Callers == {"A", "B"}
SaveOps == {"save", "save_async"}
LoadOps == {"load", "load_async"}
StoreOps == {"store_save", "store_load", "main"}

Idle == [op |-> "none", path |-> P1, k |-> 0, ty |-> "none", pc |-> "idle",
         json |-> <<>>, res |-> Pending, steps |-> <<>>, missing |-> FALSE,
         failed |-> "none", prev |-> 0, matched |-> None, n |-> 0]

Running(i) == frame[i].pc \notin {"idle", "done"}
Buffering == Len(pending) + Cardinality({i \in Callers : Running(i) /\ frame[i].op = "save_async"})

FirstPc(op) ==
  IF op = "save" THEN "enc" ELSE IF op = "save_async" THEN "a_enc"
  ELSE IF op = "load" THEN "open" ELSE IF op = "load_async" THEN "a_open"
  ELSE IF op = "store_save" THEN "s_dir" ELSE IF op = "store_load" THEN "l_open"
  ELSE "m_home"

\* caller i starts operation op on path p with value k (saves) or for type ty (loads)
Call(i, op, p, k, ty) ==
  /\ ~Running(i)
  /\ op = "save_async" => Buffering < MaxPending
  /\ frame' = [frame EXCEPT ![i] = [Idle EXCEPT !.op = op, !.path = p, !.k = k, !.ty = ty,
                                               !.pc = FirstPc(op), !.prev = saved[p],
                                               !.n = Min(frame[i].n + 1, MaxRaceCalls)]]
  /\ UNCHANGED <<dir, parent_ok, quota, files, pending, saved, contrib>>


\* the frame of caller i after one more step of its call
Advance(i, step, pc) == [frame[i] EXCEPT !.pc = pc, !.steps = Append(@, step)]
Finish(i, step, res, failed) ==
  [frame[i] EXCEPT !.pc = "done", !.steps = Append(@, step), !.res = res,
                   !.failed = IF @ = "none" THEN failed ELSE @]

Truncated(p, file) ==
  /\ files' = [files EXCEPT ![p] = file]
  /\ saved' = [saved EXCEPT ![p] = 0]
  /\ contrib' = [contrib EXCEPT ![p] = {}]

(* ------------------------------------------------------------------ *)
(* lib.rs: save                                                        *)

\* mutant: the file created before the value is serialized
Save_create_then_to_string(i) ==
  LET f == frame[i]
      r == to_string(Values[f.k])
      c == FsCreate(f.path)
  IN /\ f.pc = "enc"
     /\ IF c.ok
        THEN /\ Truncated(f.path, c.file)
             /\ frame' = [frame EXCEPT ![i] =
                            IF r.ok THEN [Advance(i, "to_string", "write") EXCEPT !.json = r.text]
                            ELSE Finish(i, "to_string", Err(r.kind), "to_string")]
        ELSE /\ frame' = [frame EXCEPT ![i] = Finish(i, "create", Err(c.kind), "create")]
             /\ UNCHANGED <<files, saved, contrib>>
     /\ UNCHANGED <<dir, parent_ok, quota, pending>>

\* let json_data = serde_json::to_string(&data)?;
Save_to_string(i) ==
  LET f == frame[i]
      r == to_string(Values[f.k])
  IN /\ f.pc = "enc"
     /\ frame' = [frame EXCEPT ![i] =
                    IF r.ok THEN [Advance(i, "to_string", "create") EXCEPT !.json = r.text]
                    ELSE Finish(i, "to_string", Err(r.kind), "to_string")]
     /\ UNCHANGED <<dir, parent_ok, quota, files, pending, saved, contrib>>

\* let mut file = std::fs::File::create(path)?;
Save_create(i) ==
  LET f == frame[i]
      c == FsCreate(f.path)
  IN /\ f.pc = "create"
     /\ IF c.ok
        THEN /\ Truncated(f.path, c.file)
             /\ frame' = [frame EXCEPT ![i] = Advance(i, "create", "write")]
        ELSE /\ frame' = [frame EXCEPT ![i] = Finish(i, "create", Err(c.kind), "create")]
             /\ UNCHANGED <<files, saved, contrib>>
     /\ UNCHANGED <<dir, parent_ok, quota, pending>>

\* file.write_all(json_data.as_bytes())
Save_write_all(i) ==
  LET f == frame[i]
      w == FsWriteAll(files[f.path].data, f.json)
  IN /\ f.pc = "write"
     /\ files' = [files EXCEPT ![f.path].data = w.data]
     /\ contrib' = [contrib EXCEPT ![f.path] = @ \cup {f.k}]
     /\ saved' = [saved EXCEPT ![f.path] = IF w.ok THEN f.k ELSE 0]
     /\ frame' = [frame EXCEPT ![i] =
                    Finish(i, "write_all", IF w.ok THEN Ok(Unit) ELSE Err(w.kind),
                           IF w.ok THEN "none" ELSE "write_all")]
     /\ UNCHANGED <<dir, parent_ok, quota, pending>>

(* ------------------------------------------------------------------ *)
(* lib.rs: save_async                                                  *)

\* let json_data = tokio::task::spawn_blocking(move || serde_json::to_string(&data)).await??;
SaveAsync_to_string(i) ==
  LET f == frame[i]
      r == to_string(Values[f.k])
  IN /\ f.pc = "a_enc"
     /\ frame' = [frame EXCEPT ![i] =
                    IF r.ok THEN [Advance(i, "to_string", "a_create") EXCEPT !.json = r.text]
                    ELSE Finish(i, "to_string", Err(r.kind), "to_string")]
     /\ UNCHANGED <<dir, parent_ok, quota, files, pending, saved, contrib>>

\* let mut file = tokio::fs::File::create(path).await?;
SaveAsync_create(i) ==
  LET f == frame[i]
      c == FsCreate(f.path)
  IN /\ f.pc = "a_create"
     /\ IF c.ok
        THEN /\ Truncated(f.path, c.file)
             /\ frame' = [frame EXCEPT ![i] = Advance(i, "create", "a_write")]
        ELSE /\ frame' = [frame EXCEPT ![i] = Finish(i, "create", Err(c.kind), "create")]
             /\ UNCHANGED <<files, saved, contrib>>
     /\ UNCHANGED <<dir, parent_ok, quota, pending>>

\* file.write_all(json_data.as_bytes()).await: the bytes go to the handle's
\* buffer and a blocking task; the call is resumed with Ok and the handle dropped
SaveAsync_write_all(i) ==
  LET f == frame[i]
  IN /\ f.pc = "a_write"
     /\ pending' = Append(pending, [path |-> f.path, buf |-> f.json, k |-> f.k])
     /\ saved' = [saved EXCEPT ![f.path] = f.k]
     /\ frame' = [frame EXCEPT ![i] = Finish(i, "write_all", Ok(Unit), "none")]
     /\ UNCHANGED <<dir, parent_ok, quota, files, contrib>>

\* the blocking task of a buffered write: std write_all on the shared handle;
\* its result stays in the dropped handle
BackgroundWrite(n) ==
  LET b == pending[n]
      w == FsWriteAll(files[b.path].data, b.buf)
  IN /\ n \in 1..Len(pending)
     /\ files' = [files EXCEPT ![b.path].data = w.data]
     /\ contrib' = [contrib EXCEPT ![b.path] = @ \cup {b.k}]
     /\ pending' = SubSeq(pending, 1, n - 1) \o SubSeq(pending, n + 1, Len(pending))
     /\ UNCHANGED <<dir, parent_ok, quota, frame, saved>>

(* ------------------------------------------------------------------ *)
(* lib.rs: load                                                        *)

Missing(p) == ~dir \/ ~files[p].exists

\* let mut file = std::fs::File::open(path)?;
Load_open(i) ==
  LET f == frame[i]
      o == FsOpen(f.path)
  IN /\ f.pc = "open"
     /\ frame' = [frame EXCEPT ![i] =
                    [(IF o.ok THEN Advance(i, "open", "read")
                      ELSE Finish(i, "open", Err(o.kind), "open"))
                     EXCEPT !.missing = Missing(f.path)]]
     /\ UNCHANGED <<dir, parent_ok, quota, files, pending, saved, contrib>>

\* file.read_to_string(&mut json_data)?;
Load_read_to_string(i) ==
  LET f == frame[i]
      r == FsReadToString(f.path)
  IN /\ f.pc = "read"
     /\ frame' = [frame EXCEPT ![i] =
                    IF r.ok THEN [Advance(i, "read_to_string", "dec") EXCEPT !.json = r.text]
                    ELSE Finish(i, "read_to_string", Err(r.kind), "read_to_string")]
     /\ UNCHANGED <<dir, parent_ok, quota, files, pending, saved, contrib>>

\* let data: T = serde_json::from_str(&json_data)?;  Ok(data)
Load_from_str(i) ==
  LET f == frame[i]
      d == from_str_result(f.json, f.ty)
  IN /\ f.pc = "dec"
     /\ frame' = [frame EXCEPT ![i] =
                    Finish(i, "from_str", d, IF d.ok THEN "none" ELSE "from_str")]
     /\ UNCHANGED <<dir, parent_ok, quota, files, pending, saved, contrib>>

(* ------------------------------------------------------------------ *)
(* lib.rs: load_async                                                  *)

\* let mut file = tokio::fs::File::open(path).await?;
LoadAsync_open(i) ==
  LET f == frame[i]
      o == FsOpen(f.path)
  IN /\ f.pc = "a_open"
     /\ frame' = [frame EXCEPT ![i] =
                    [(IF o.ok THEN Advance(i, "open", "a_read")
                      ELSE Finish(i, "open", Err(o.kind), "open"))
                     EXCEPT !.missing = Missing(f.path)]]
     /\ UNCHANGED <<dir, parent_ok, quota, files, pending, saved, contrib>>

\* file.read_to_string(&mut json_data).await?;
LoadAsync_read_to_string(i) ==
  LET f == frame[i]
      r == FsReadToString(f.path)
  IN /\ f.pc = "a_read"
     /\ frame' = [frame EXCEPT ![i] =
                    IF r.ok THEN [Advance(i, "read_to_string", "a_dec") EXCEPT !.json = r.text]
                    ELSE Finish(i, "read_to_string", Err(r.kind), "read_to_string")]
     /\ UNCHANGED <<dir, parent_ok, quota, files, pending, saved, contrib>>

\* let data: T = tokio::task::spawn_blocking(move || serde_json::from_str(&json_data)).await??;
LoadAsync_from_str(i) ==
  LET f == frame[i]
      d == from_str_result(f.json, f.ty)
  IN /\ f.pc = "a_dec"
     /\ frame' = [frame EXCEPT ![i] =
                    Finish(i, "from_str", d, IF d.ok THEN "none" ELSE "from_str")]
     /\ UNCHANGED <<dir, parent_ok, quota, files, pending, saved, contrib>>

(* ------------------------------------------------------------------ *)
(* store.rs: save, load; main.rs: main                                 *)

\* store::save returns to main, which goes on to store::load, or to its caller
AfterStoreSave(f) == IF f.op = "main" THEN "l_open" ELSE "done"
AfterStoreLoad(f) == IF f.op = "main" THEN "m_unwrap" ELSE "done"

\* if !Path::new(&path).exists() { _ = fs::create_dir(path); }
Store_create_dir(i) ==
  LET f == frame[i]
  IN /\ f.pc = "s_dir"
     /\ dir' = (dir \/ parent_ok)
     /\ frame' = [frame EXCEPT ![i] =
                    [Advance(i, "create_dir", "s_enc")
                     EXCEPT !.failed = IF ~dir /\ ~parent_ok THEN "create_dir" ELSE @]]
     /\ UNCHANGED <<parent_ok, quota, files, pending, saved, contrib>>

\* let json_data = to_string(&data).unwrap();
Store_to_string(i) ==
  LET f == frame[i]
      r == to_string(Values[f.k])
  IN /\ f.pc = "s_enc"
     /\ frame' = [frame EXCEPT ![i] =
                    IF r.ok THEN [Advance(i, "to_string", "s_create") EXCEPT !.json = r.text]
                    ELSE Finish(i, "to_string", Panic, "to_string")]
     /\ UNCHANGED <<dir, parent_ok, quota, files, pending, saved, contrib>>

\* let mut file = File::create(&path).unwrap();
Store_create(i) ==
  LET f == frame[i]
      c == FsCreate(f.path)
  IN /\ f.pc = "s_create"
     /\ IF c.ok
        THEN /\ Truncated(f.path, c.file)
             /\ frame' = [frame EXCEPT ![i] = Advance(i, "create", "s_write")]
        ELSE /\ frame' = [frame EXCEPT ![i] = Finish(i, "create", Panic, "create")]
             /\ UNCHANGED <<files, saved, contrib>>
     /\ UNCHANGED <<dir, parent_ok, quota, pending>>

\* _ = file.write_all(json_data.as_bytes());
Store_write_all(i) ==
  LET f == frame[i]
      w == FsWriteAll(files[f.path].data, f.json)
  IN /\ f.pc = "s_write"
     /\ files' = [files EXCEPT ![f.path].data = w.data]
     /\ contrib' = [contrib EXCEPT ![f.path] = @ \cup {f.k}]
     /\ frame' = [frame EXCEPT ![i] =
                    [Advance(i, "write_all", AfterStoreSave(f))
                     EXCEPT !.res = Ok(Unit),
                            !.failed = IF @ = "none" /\ ~w.ok THEN "write_all" ELSE @]]
     /\ UNCHANGED <<dir, parent_ok, quota, pending, saved>>

\* mutant: the value of the match returned
StoreLoadValue_matched(matched) == matched

\* the value of the function: the `match` is a statement, its value is dropped,
\* and the tail expression is None
StoreLoadValue(matched) == None

\* let file = File::open(path);  if let Ok(mut file) = file { ... }  None
StoreLoad_open(i) ==
  LET f == frame[i]
      o == FsOpen(f.path)
  IN /\ f.pc = "l_open"
     /\ frame' = [frame EXCEPT ![i] =
                    IF o.ok THEN [Advance(i, "open", "l_read") EXCEPT !.res = Pending]
                    ELSE [Advance(i, "open", AfterStoreLoad(f))
                          EXCEPT !.res = StoreLoadValue(None),
                                 !.failed = IF @ = "none" THEN "open" ELSE @]]
     /\ UNCHANGED <<dir, parent_ok, quota, files, pending, saved, contrib>>

\* _ = file.read_to_string(&mut json_data);
StoreLoad_read_to_string(i) ==
  LET f == frame[i]
      r == FsReadToString(f.path)
  IN /\ f.pc = "l_read"
     /\ frame' = [frame EXCEPT ![i] =
                    [Advance(i, "read_to_string", "l_dec")
                     EXCEPT !.json = r.text,
                            !.failed = IF @ = "none" /\ ~r.ok THEN "read_to_string" ELSE @]]
     /\ UNCHANGED <<dir, parent_ok, quota, files, pending, saved, contrib>>

\* let res = from_str::<T>(json_data.as_str());
\* match res { Ok(data) => Some(data), Err(_) => None };
StoreLoad_from_str(i) ==
  LET f == frame[i]
      d == from_str_result(f.json, f.ty)
      m == IF d.ok THEN Some(d.val) ELSE None
  IN /\ f.pc = "l_dec"
     /\ frame' = [frame EXCEPT ![i] =
                    [Advance(i, "from_str", AfterStoreLoad(f))
                     EXCEPT !.matched = m, !.res = StoreLoadValue(m),
                            !.failed = IF @ = "none" /\ ~d.ok THEN "from_str" ELSE @]]
     /\ UNCHANGED <<dir, parent_ok, quota, files, pending, saved, contrib>>

\* let home_dir = home_dir();  if let Some(path) = home_dir { store::save(...); ... }
Main_home_dir(i) ==
  LET f == frame[i]
  IN /\ f.pc = "m_home"
     /\ \E some \in BOOLEAN :
          frame' = [frame EXCEPT ![i] =
                      IF some THEN Advance(i, "home_dir", "s_dir")
                      ELSE Finish(i, "home_dir", Ok(Unit), "none")]
     /\ UNCHANGED <<dir, parent_ok, quota, files, pending, saved, contrib>>

\* let some: Person = store::load(...).unwrap();  println!("{:?}", some);
Main_unwrap(i) ==
  LET f == frame[i]
  IN /\ f.pc = "m_unwrap"
     /\ frame' = [frame EXCEPT ![i] =
                    IF f.res.kind = "Some" THEN Finish(i, "println", Ok(Unit), "none")
                    ELSE Finish(i, "unwrap", Panic, "none")]
     /\ UNCHANGED <<dir, parent_ok, quota, files, pending, saved, contrib>>

(* ------------------------------------------------------------------ *)
(* initial states and specifications                                   *)

\* the fields of a struct value as a JSON array, in declaration order
RECURSIVE ElementsToText(_, _, _)
ElementsToText(fs, xs, i) ==
  IF i > Len(fs) THEN <<>>
  ELSE (IF i > 1 THEN <<",">> ELSE <<>>) \o FieldToText(fs[i].ty, xs[i])
       \o ElementsToText(fs, xs, i + 1)
ArrayText(v) == <<"[">> \o ElementsToText(Fields(v.t), v.v, 1) \o <<"]">>

text_array == ArrayText(Values[1])
text_spaced == <<"{", " ", "\"", "v", "a", "l", "u", "e", "\"", ":", "1", ",", "\n",
                 "\"", "x", "\"", ":", "0", ",", "\"", "n", "a", "m", "e", "\"", " ", ":",
                 "\"", "a", "\"", "}", "\n">>
text_not_json == <<"n", "o", "t", " ", "j", "s", "o", "n">>
text_numbers == <<"[", "1", ",", "2", "]">>
text_no_value == <<"{", "\"", "n", "a", "m", "e", "\"", ":", "\"", "a", "\"", "}">>
text_binary == <<"{", InvalidByte, "}">>

\* what a file may hold before the first call: an empty temporary file, a
\* saved value, other JSON texts, text that is no JSON, bytes that are no text
InitTexts == {<<>>, to_string(Values[1]).text, to_string(Values[MainData]).text,
              text_array, text_spaced, text_not_json, text_numbers, text_no_value, text_binary}
InitFiles == {Absent} \cup {FileOf(t) : t \in InitTexts}

InitCommon ==
  /\ dir \in BOOLEAN
  /\ parent_ok \in BOOLEAN
  /\ quota \in {SmallQuota, BigQuota}
  /\ frame = [i \in Callers |-> Idle]
  /\ pending = <<>>
  /\ saved = [p \in Paths |-> 0]
  /\ contrib = [p \in Paths |-> {}]

Init ==
  /\ InitCommon
  /\ \E f \in InitFiles : files = [p \in Paths |-> IF p = P1 /\ dir THEN f ELSE Absent]

LibStep(i) ==
  \/ Save_to_string(i) \/ Save_create(i) \/ Save_write_all(i)
  \/ SaveAsync_to_string(i) \/ SaveAsync_create(i) \/ SaveAsync_write_all(i)
  \/ Load_open(i) \/ Load_read_to_string(i) \/ Load_from_str(i)
  \/ LoadAsync_open(i) \/ LoadAsync_read_to_string(i) \/ LoadAsync_from_str(i)

StoreStep(i) ==
  \/ Store_create_dir(i) \/ Store_to_string(i) \/ Store_create(i) \/ Store_write_all(i)
  \/ StoreLoad_open(i) \/ StoreLoad_read_to_string(i) \/ StoreLoad_from_str(i)
  \/ Main_home_dir(i) \/ Main_unwrap(i)

CallSave(i, p) == \E op \in SaveOps, k \in ValueIds : Call(i, op, p, k, "none")
CallLoad(i, p) == \E op \in LoadOps, ty \in Types : Call(i, op, p, 0, ty)
CallStoreSave(i, p) == \E k \in ValueIds : Call(i, "store_save", p, k, "none")
CallStoreLoad(i, p) == \E ty \in Types : Call(i, "store_load", p, 0, ty)
CallMain(i) == Call(i, "main", P1, MainData, "Person")

\* one caller, one call at a time, every operation of the repository
Next ==
  \/ CallSave("A", P1) \/ CallLoad("A", P1)
  \/ CallStoreSave("A", P1) \/ CallStoreLoad("A", P1) \/ CallMain("A")
  \/ \E i \in Callers : LibStep(i)
  \/ \E i \in Callers : StoreStep(i)
  \/ \E n \in 1..Len(pending) : BackgroundWrite(n)

Spec == Init /\ [][Next]_vars

\* two callers saving to the same path at the same time, each at most MaxRaceCalls times
InitRace ==
  /\ InitCommon
  /\ dir
  /\ parent_ok
  /\ \E f \in {Absent, FileOf(text_spaced)} : files = [p \in Paths |-> IF p = P1 THEN f ELSE Absent]

SaveStep(i) ==
  \/ Save_to_string(i) \/ Save_create(i) \/ Save_write_all(i)
  \/ SaveAsync_to_string(i) \/ SaveAsync_create(i) \/ SaveAsync_write_all(i)

NextRace ==
  \/ \E i \in Callers : frame[i].n < MaxRaceCalls /\ CallSave(i, P1)
  \/ \E i \in Callers : SaveStep(i)
  \/ \E n \in 1..Len(pending) : BackgroundWrite(n)

SpecRace == InitRace /\ [][NextRace]_vars

\* the blocking functions on one path and the async ones on another that
\* starts with the same content, each called once
InitModes ==
  /\ InitCommon
  /\ \E f \in InitFiles : files = [p \in Paths |-> IF dir THEN f ELSE Absent]

NextModes ==
  \/ \E k \in ValueIds : frame["A"].pc = "idle" /\ Call("A", "save", P1, k, "none")
  \/ \E ty \in Types : frame["A"].pc = "idle" /\ Call("A", "load", P1, 0, ty)
  \/ \E k \in ValueIds : frame["B"].pc = "idle" /\ Call("B", "save_async", P2, k, "none")
  \/ \E ty \in Types : frame["B"].pc = "idle" /\ Call("B", "load_async", P2, 0, ty)
  \/ \E i \in Callers : LibStep(i)
  \/ \E n \in 1..Len(pending) : BackgroundWrite(n)

SpecModes == InitModes /\ [][NextModes]_vars

(* ------------------------------------------------------------------ *)
(* the claims                                                          *)

InSeq(x, s) == \E n \in 1..Len(s) : s[n] = x
Encoding(k) == to_string(Values[k]).text
Returned(i) == frame[i].pc = "done"
TextsOf(ty) == {k \in ValueIds : Values[k].t = ty}

\* C1 (as claimed): a load that follows a successful save or save_async of v on
\* the same path, nothing else having touched the path since, returns Ok(v).
C1_RoundTrip ==
  \A i \in Callers :
    (/\ frame[i].op \in LoadOps
     /\ Returned(i)
     /\ frame[i].prev # 0
     /\ frame[i].ty = Values[frame[i].prev].t)
    => (frame[i].res.ok /\ frame[i].res.val = Values[frame[i].prev])

\* C2 (as claimed): after a successful save of v1 and then a successful save of
\* v2 to the same path, the encodings differing in length, the file holds
\* exactly the encoding of v2 (looked at once no buffered write is outstanding).
C2_TruncationOnOverwrite ==
  \A i \in Callers :
    (/\ frame[i].op \in SaveOps
     /\ Returned(i)
     /\ frame[i].res.ok
     /\ frame[i].prev # 0
     /\ pending = <<>>
     /\ Len(Encoding(frame[i].prev)) # Len(Encoding(frame[i].k)))
    => files[frame[i].path].data = Encoding(frame[i].k)

\* C3: load and load_async of a path that does not exist return the NotFound
\* error, having done nothing but the open: no read, no decode.
C3_MissingFile ==
  \A i \in Callers :
    (frame[i].op \in LoadOps /\ Returned(i) /\ frame[i].missing)
    => (/\ frame[i].res = Err("NotFound")
        /\ frame[i].steps = <<"open">>
        /\ frame[i].json = <<>>)

C3_Witness ==
  \E i \in Callers : frame[i].op = "load_async" /\ Returned(i) /\ frame[i].missing

\* The texts of the model that are JSON matching struct type ty: as an object,
\* compact as saved or laid out otherwise; as an array of the fields in order.
ObjectTexts(ty) ==
  {Encoding(k) : k \in TextsOf(ty)} \cup (IF ty = "TestData" THEN {text_spaced} ELSE {})
ArrayTexts(ty) == {ArrayText(Values[k]) : k \in TextsOf(ty)}
DecodeFailure == {"InvalidData", "UnexpectedEof"}
Decoded(i) == frame[i].op \in LoadOps /\ Returned(i) /\ InSeq("from_str", frame[i].steps)

\* C4 (as claimed): a load of a readable file whose text is not JSON, or is
\* JSON that is not an object of the requested type, returns a decode error.
C4_DecodeFailure ==
  \A i \in Callers :
    (Decoded(i) /\ frame[i].json \notin ObjectTexts(frame[i].ty))
    => (~frame[i].res.ok /\ frame[i].res.kind \in DecodeFailure)

\* C4 (amended): the same, an array of the struct's field values in
\* declaration order counting as JSON of the requested type.
C4_DecodeFailureAmended ==
  \A i \in Callers :
    (Decoded(i) /\ frame[i].json \notin (ObjectTexts(frame[i].ty) \cup ArrayTexts(frame[i].ty)))
    => (~frame[i].res.ok /\ frame[i].res.kind \in DecodeFailure)

C4_Witness ==
  \E i \in Callers :
    /\ Decoded(i)
    /\ frame[i].op = "load_async"
    /\ frame[i].json = text_numbers
    /\ frame[i].res = Err("InvalidData")

\* C5 (as claimed): from the same file state and with the same argument, save
\* and save_async, and load and load_async, return the same result and leave
\* the same bytes in the file.
C5_SameInBothModes ==
  LET a == frame["A"]
      b == frame["B"]
  IN (/\ Returned("A") /\ Returned("B")
      /\ pending = <<>>
      /\ \/ a.op = "save" /\ b.op = "save_async" /\ a.k = b.k
         \/ a.op = "load" /\ b.op = "load_async" /\ a.ty = b.ty)
     => (/\ a.res.ok = b.res.ok
         /\ a.res.kind = b.res.kind
         /\ a.res.val = b.res.val
         /\ files[P1] = files[P2])

\* C6 (as claimed): when save_async has returned Ok the file holds the whole
\* encoding and no write of it is still outstanding.
C6_SaveAsyncCompletes ==
  \A i \in Callers :
    (frame[i].op = "save_async" /\ Returned(i) /\ frame[i].res.ok)
    => (/\ files[frame[i].path].data = frame[i].json
        /\ \A n \in 1..Len(pending) : pending[n].path # frame[i].path)

Raced(i, j) ==
  /\ i # j
  /\ frame[i].op \in SaveOps /\ frame[j].op \in SaveOps
  /\ Returned(i) /\ Returned(j)
  /\ frame[i].res.ok /\ frame[j].res.ok
  /\ frame[i].path = frame[j].path
  /\ contrib[frame[i].path] \subseteq {frame[i].k, frame[j].k}

Settled(p) == \A n \in 1..Len(pending) : pending[n].path # p

ByteOf(text, n) == IF n <= Len(text) THEN {text[n]} ELSE {}
Written(k) == SubSeq(Encoding(k), 1, Min(Len(Encoding(k)), quota))

C8_FailuresSurface ==
  \A i \in Callers :
    (Returned(i) /\ frame[i].failed # "none") => ~frame[i].res.ok

Unserializable(i) == frame[i].op \in SaveOps /\ ~Serializable(Values[frame[i].k])

\* C9: a step of save or save_async changes the file only once the value has
\* been serialized; when serialization fails that step ends the call with an
\* error and leaves the directory, the files and the buffered writes as they were.
C9_EncodeThenWrite ==
  [][\A i \in Callers :
       (frame[i].op \in SaveOps /\ Running(i) /\ frame'[i] # frame[i])
       => /\ files' # files =>
               (Serializable(Values[frame[i].k]) /\ frame[i].json = Encoding(frame[i].k))
          /\ Unserializable(i) =>
               (/\ files' = files /\ dir' = dir /\ pending' = pending
                /\ frame'[i].pc = "done" /\ ~frame'[i].res.ok)]_vars

C9_Witness ==
  \E i \in Callers :
    /\ Unserializable(i)
    /\ frame[i].op = "save_async"
    /\ Returned(i)
    /\ ~frame[i].res.ok
    /\ files[frame[i].path] = FileOf(Encoding(1))

\* C10: store::load returns None whatever happened, also when the text decoded
\* into the requested type; main never gets past its unwrap.
C10_StoreLoadAlwaysNone ==
  \A i \in Callers :
    /\ (frame[i].op = "store_load" /\ Returned(i)) => frame[i].res = None
    /\ (frame[i].op = "main" /\ frame[i].pc = "m_unwrap") => frame[i].res = None
    /\ frame[i].op = "main" => ~InSeq("println", frame[i].steps)
    /\ (frame[i].op = "main" /\ Returned(i) /\ InSeq("from_str", frame[i].steps))
         => frame[i].res = Panic

C10_Witness ==
  \E i \in Callers :
    /\ frame[i].op = "main"
    /\ Returned(i)
    /\ frame[i].matched = Some(Values[MainData])
    /\ frame[i].res = Panic

====
